---- MODULE Spec2Model ----
(***************************************************************************)
(* A model of the stateful parts of gita-multilingual:                     *)
(*   - hooks/useDailyQuote.ts    (resolveQuoteId, useDailyQuote)           *)
(*   - hooks/useTanpuraDrone.ts  (start, stop, toggle, unmount cleanup)    *)
(*   - components/GitaExperience.tsx (fetchLocalized, pickVoice,           *)
(*     handleNarration, stopNarration)                                     *)
(* Each part has its own specification (QuoteSpec, RenderSpec, DroneSpec,  *)
(* DroneFaultSpec, NarrationSpec) over the shared variable list; the       *)
(* variables of the other parts stay at their initial values.              *)
(***************************************************************************)
EXTENDS Integers, Sequences, FiniteSets, TLC

VARIABLES
    \* ---- environment of useDailyQuote ----
    hasWindow,      \* typeof window !== "undefined" on this device
    tzOffset,       \* minutes the device's local time is ahead of UTC
    now,            \* the clock: minutes since the model's epoch, in UTC
    dailyQuotes,    \* the static quote set (content module)
    storage,        \* the value under STORAGE_KEY in window.localStorage
    \* ---- state of the component using useDailyQuote ----
    quoteId,        \* useMemo(() => resolveQuoteId(), [])
    language,       \* the language prop
    shown,          \* what useDailyQuote returned on the last render
    heading,        \* the daily-quote title rendered above it
    \* ---- observation of the calls of resolveQuoteId ----
    call,           \* the last call: inputs, outcome, storage before it
    prev,           \* the last call before it that returned
    touched,        \* storage changed from outside since the last call
    calls,          \* how many times resolveQuoteId has been called
    changes,        \* how many times storage changed from outside
    touchedBetween, \* ... between prev and call
    \* ---- useTanpuraDrone ----
    audioAvailable, \* window.AudioContext ?? window.webkitAudioContext exists
    contextRef,     \* contextRef.current: 0 (null) or the id of a context
    contexts,       \* the AudioContexts created so far: id -> state
    pending,        \* suspend()/resume()/close() issued and not yet settled
    nodesRef,       \* nodesRef.current: the recorded voices (oscillator ids)
    oscillators,    \* every DroneNode created so far: id -> its audio state
    created,        \* how many DroneNodes have been created
    isActive,       \* the isActive React state
    rendered,       \* the isActive the toggle of the last committed render closes over
    mounted,        \* the component using the hook is mounted
    op,             \* the last operation of the hook that ran
    \* ---- narration (GitaExperience) ----
    speechSupported, \* window.speechSynthesis exists
    hasSection,     \* a section is selected
    voices,         \* the voices state: the lang of each available voice
    queue,          \* the utterances the speech engine holds, oldest first
    events,         \* utterances whose end/error event is not yet delivered
    isSpeaking,     \* the isSpeaking React state
    issued,         \* how many utterances handleNarration has submitted
    lastUtterance,  \* the utterance handleNarration submitted last
    narrMounted,    \* GitaExperience is mounted
    narrOp          \* the last narration step that ran

quoteVars == <<hasWindow, tzOffset, now, dailyQuotes, storage, quoteId, language,
               shown, heading, call, prev, touched, touchedBetween, calls, changes>>
droneVars == <<audioAvailable, contextRef, contexts, pending, nodesRef,
               oscillators, created, isActive, rendered, mounted, op>>
quoteState == <<tzOffset, now, dailyQuotes, storage, quoteId, language, shown,
                heading, call, prev, touched, touchedBetween, calls, changes>>
narrVars == <<speechSupported, hasSection, voices, queue, events, isSpeaking,
              issued, lastUtterance, narrMounted, narrOp>>
vars == <<quoteVars, droneVars, narrVars>>

----------------------------------------------------------------------------
(* Bounds of the model *)

MaxQuotes == 2      \* the quote set holds 0..MaxQuotes quotes
MaxTicks == 2       \* the clock advances at most this many times
MaxCalls == 2       \* resolveQuoteId is called at most this many times
MaxChanges == 1     \* storage is changed from outside at most this many times
RandSteps == 4      \* Math.random() is one of k/RandSteps, 0 <= k < RandSteps
MaxUtterances == 3  \* handleNarration submits at most this many utterances
MaxVoices == 2      \* voices in the list pickVoice searches
MaxStarts == 3      \* start() builds voices at most this many times
MaxPending == 4     \* at most this many context operations await settling
RateSteps == 2      \* the modulator's Math.random() is one of k/RateSteps

----------------------------------------------------------------------------
(* The clock and the calendar.  An instant is a number of minutes since    *)
(* 2024-02-27T00:00Z; 2024 is a leap year, so the days run 27, 28, 29 Feb, *)
(* 1 Mar, ...                                                              *)

MinutesPerDay == 24 * 60
TickMinutes == 12 * 60
StartInstant == MinutesPerDay + 6 * 60
TzOffsets == {0 - 5 * 60, 0, 5 * 60 + 30}

\* day number -> <<year, month (0-based, as Date reports it), day of month>>
FieldsOfDay(n) == IF n <= 2 THEN <<2024, 1, 27 + n>> ELSE <<2024, 2, n - 2>>
\* <<year, month, day>> -> day number
DayOfFields(y, m, d) == IF m = 1 THEN d - 27 ELSE d + 2

\* Date.prototype.getFullYear / getMonth / getDate: fields of the local time
LocalDay(t) == (t + tzOffset) \div MinutesPerDay
getFullYear(t) == FieldsOfDay(LocalDay(t))[1]
getMonth(t) == FieldsOfDay(LocalDay(t))[2]
getDate(t) == FieldsOfDay(LocalDay(t))[3]
\* new Date(year, month, day): the instant of local midnight of that day
NewDate(y, m, d) == DayOfFields(y, m, d) * MinutesPerDay - tzOffset
\* toISOString().slice(0, 10): "YYYY-MM-DD" of the instant's UTC day, as
\* <<YYYY, MM, DD>> (MM 1-based)
toISOStringDate(t) ==
    LET f == FieldsOfDay(t \div MinutesPerDay) IN <<f[1], f[2] + 1, f[3]>>

\* lines 12-15: the date string resolveQuoteId compares and persists
localDate(t) == toISOStringDate(NewDate(getFullYear(t), getMonth(t), getDate(t)))

----------------------------------------------------------------------------
(* The content module and the persisted value *)

\* the Language type: the keys of voiceHints
Languages == {"en", "hi", "ml", "ta", "kn", "te", "bn", "ar"}

Undefined == "<undefined>"      \* JavaScript's undefined, where a string may stand
NoDate == <<>>                  \* ... where a date string may stand
EmptyString == ""

\* the i-th quote of the content module: a unique id, and text and source
\* in English and in some of the other languages
QuoteAt(i) ==
    [id |-> "q" \o ToString(i),
     text |-> [l \in (IF i % 2 = 1 THEN {"en", "hi"} ELSE {"en"}) |->
                  "text" \o ToString(i) \o "-" \o l],
     source |-> [l \in (IF i % 2 = 0 THEN {"en", "ar"} ELSE {"en"}) |->
                  "source" \o ToString(i) \o "-" \o l]]
QuoteSets == {[i \in 1..n |-> QuoteAt(i)] : n \in 0..MaxQuotes}
StaleId == "q0"                 \* an id no quote of the set carries

\* What getItem(STORAGE_KEY) can hold: nothing (null), the empty string, text
\* that is not JSON, and the JSON texts of null, of a number and of an object
\* with or without a date and a quoteId.
Absent == [tag |-> "absent", date |-> NoDate, quoteId |-> Undefined]
EmptyRaw == [tag |-> "empty", date |-> NoDate, quoteId |-> Undefined]
Garbage == [tag |-> "garbage", date |-> NoDate, quoteId |-> Undefined]
JsonNull == [tag |-> "null", date |-> NoDate, quoteId |-> Undefined]
JsonNumber == [tag |-> "number", date |-> NoDate, quoteId |-> Undefined]
\* JSON.stringify({ date, quoteId })
JSONstringify(d, q) == [tag |-> "object", date |-> d, quoteId |-> q]

\* How window.localStorage behaves during one call: "ok"; "denied" (reading
\* the localStorage property throws, so neither getItem nor setItem is
\* reached); "full" (getItem works, setItem throws).
StorageModes == {"ok", "denied", "full"}

----------------------------------------------------------------------------
(* resolveQuoteId, lines 8-43 *)

\* lines 17-25: stored after the try/catch; null is JsonNull
StoredAfterRead(mode) ==
    IF mode = "denied" THEN JsonNull                       \* line 19 throws
    ELSE IF storage.tag \in {"absent", "empty"} THEN JsonNull  \* if (raw) fails
    ELSE IF storage.tag = "garbage" THEN JsonNull          \* JSON.parse throws
    ELSE storage                                           \* JSON.parse(raw)

\* stored?.date
StoredDate(stored) == IF stored.tag = "object" THEN stored.date ELSE NoDate

\* line 27
\* faulty variant: compares with a value that is never a stored date
ReuseStoredUnsliced(stored, today) == StoredDate(stored) = <<today>>
ReuseStored(stored, today) == StoredDate(stored) = today

\* lines 31-32: dailyQuotes[Math.floor(Math.random() * length)] ?? dailyQuotes[0];
\* the result is an index into dailyQuotes, 0 when there is no such quote
Selection(k) ==
    IF Len(dailyQuotes) = 0 THEN 0
    ELSE ((k * Len(dailyQuotes)) \div RandSteps) + 1

\* line 35: does setItem throw
SetItemThrows(mode) == mode \in {"denied", "full"}

\* The whole call, with the clock at t, storage in the given mode and the
\* random draw k/RandSteps: <<outcome, value returned, storage after, draw>>
resolveQuoteId(t, mode, k) ==
    IF ~hasWindow
    THEN <<"returned",
           IF Len(dailyQuotes) > 0 THEN dailyQuotes[1].id ELSE EmptyString,
           storage, 0>>
    ELSE LET today == localDate(t)
             stored == StoredAfterRead(mode)
             sel == Selection(k)
         IN  IF ReuseStored(stored, today)
             THEN <<"returned", stored.quoteId, storage, 0>>
             ELSE IF sel # 0
             THEN IF SetItemThrows(mode)
                  THEN <<"threw", Undefined, storage, sel>>
                  ELSE <<"returned", dailyQuotes[sel].id,
                         JSONstringify(today, dailyQuotes[sel].id), sel>>
             ELSE <<"returned", EmptyString, storage, 0>>

----------------------------------------------------------------------------
(* useDailyQuote, lines 45-58 *)

\* dailyQuotes.find((item) => item.id === quoteId): an index, 0 for undefined
\* faulty variant: the id is never found
FindNothing(id) == 0
Find(id) ==
    LET hits == {i \in 1..Len(dailyQuotes) : dailyQuotes[i].id = id}
    IN  IF hits = {} THEN 0 ELSE CHOOSE i \in hits : \A j \in hits : i <= j

\* value[language] ?? value.en
Localized(value, lang) == IF lang \in DOMAIN value THEN value[lang] ELSE value["en"]

\* lines 48-57
useDailyQuote(id, lang) ==
    LET f == Find(id)
        found == IF f # 0 THEN f ELSE IF Len(dailyQuotes) > 0 THEN 1 ELSE 0
    IN  IF found = 0
        THEN [status |-> "rendered", text |-> EmptyString, source |-> EmptyString]
        ELSE [status |-> "rendered",
              text |-> Localized(dailyQuotes[found].text, lang),
              source |-> Localized(dailyQuotes[found].source, lang)]

----------------------------------------------------------------------------
(* The quote component's steps *)

NoCall == [kind |-> "none", id |-> Undefined, day |-> 0, date |-> NoDate,
           draw |-> 0, before |-> Absent, after |-> Absent, mode |-> "ok"]
NoPrev == [kind |-> "none", id |-> Undefined, day |-> 0, mode |-> "ok"]
NotShown == [status |-> "none", text |-> EmptyString, source |-> EmptyString]
Crashed == [status |-> "error", text |-> EmptyString, source |-> EmptyString]

QuoteInit ==
    /\ hasWindow \in BOOLEAN
    /\ tzOffset \in TzOffsets
    /\ now = StartInstant
    /\ dailyQuotes \in {qs \in QuoteSets : Len(qs) \in {0, MaxQuotes}}
    /\ storage = Absent
    /\ quoteId = Undefined
    /\ language = "en"
    /\ shown = NotShown
    /\ heading = EmptyString
    /\ call = NoCall
    /\ prev = NoPrev
    /\ touched = FALSE
    /\ touchedBetween = FALSE
    /\ calls = 0
    /\ changes = 0

\* The page is loaded: the component mounts, useMemo runs resolveQuoteId and
\* the first render resolves the quote.  An exception of resolveQuoteId
\* leaves the render.
Mount ==
    /\ calls < MaxCalls
    /\ calls' = calls + 1
    /\ \E mode \in StorageModes, k \in 0..(RandSteps - 1) :
        LET r == resolveQuoteId(now, mode, k) IN
        /\ call' = [kind |-> r[1], id |-> r[2], day |-> LocalDay(now),
                    date |-> IF hasWindow THEN localDate(now) ELSE NoDate,
                    draw |-> r[4], before |-> storage, after |-> r[3],
                    mode |-> mode]
        /\ prev' = IF call.kind = "returned"
                    THEN [kind |-> "returned", id |-> call.id, day |-> call.day,
                          mode |-> call.mode]
                    ELSE prev
        /\ touchedBetween' = IF call.kind = "returned" THEN touched
                             ELSE (touchedBetween \/ touched)
        /\ touched' = FALSE
        /\ storage' = r[3]
        /\ quoteId' = r[2]
        /\ shown' = IF r[1] = "threw" THEN Crashed ELSE useDailyQuote(r[2], language)
        /\ UNCHANGED <<hasWindow, tzOffset, now, dailyQuotes, language, heading,
                       changes>>
    /\ UNCHANGED droneVars
    /\ UNCHANGED narrVars

\* GitaExperience.tsx lines 32-35: value[language] ?? value.en
\* faulty variant: the requested language is ignored
fetchLocalizedEnglish(value, lang) == value["en"]
fetchLocalized(value, lang) ==
    IF lang \in DOMAIN value THEN value[lang] ELSE value["en"]

\* uiCopy.dailyQuoteTitle (content module): a localized field
dailyQuoteTitle == [l \in {"en", "hi", "ta", "ar"} |-> "title-" \o l]

\* The user picks a language: useDailyQuote renders again with the memoized id,
\* and so does the title (GitaExperience.tsx line 202).
SetLanguage ==
    /\ shown.status = "rendered"
    /\ \E l \in Languages :
        /\ l # language
        /\ language' = l
        /\ shown' = useDailyQuote(quoteId, l)
        /\ heading' = fetchLocalized(dailyQuoteTitle, l)
    /\ UNCHANGED <<hasWindow, tzOffset, now, dailyQuotes, storage, quoteId,
                   call, prev, touched, touchedBetween, calls, changes>>
    /\ UNCHANGED droneVars
    /\ UNCHANGED narrVars

\* Time passes.
Tick ==
    /\ now < StartInstant + MaxTicks * TickMinutes
    /\ now' = now + TickMinutes
    /\ UNCHANGED <<hasWindow, tzOffset, dailyQuotes, storage, quoteId, language,
                   shown, heading, call, prev, touched, touchedBetween, calls, changes>>
    /\ UNCHANGED droneVars
    /\ UNCHANGED narrVars

\* Something other than the selector changes the persisted value: the user
\* clears the site data, another version of the page or a script writes it.
ForeignValues ==
    {Absent, EmptyRaw, Garbage, JsonNull, JsonNumber,
     JSONstringify(localDate(now), "q1"),
     JSONstringify(localDate(now), StaleId),
     JSONstringify(localDate(now), Undefined),
     JSONstringify(<<getFullYear(now), getMonth(now) + 1, getDate(now)>>, "q1"),
     JSONstringify(<<2099, 1, 1>>, "q1"),
     JSONstringify(NoDate, "q1")}
StorageChanged ==
    /\ hasWindow
    /\ changes < MaxChanges
    /\ changes' = changes + 1
    /\ \E v \in ForeignValues :
        /\ v # storage
        /\ storage' = v
    /\ touched' = TRUE
    /\ UNCHANGED <<hasWindow, tzOffset, now, dailyQuotes, quoteId, language,
                   shown, heading, call, prev, touchedBetween, calls>>
    /\ UNCHANGED droneVars
    /\ UNCHANGED narrVars

QuoteNext == Mount \/ Tick \/ StorageChanged

\* useDailyQuote on its own: the memoized id is any value resolveQuoteId can
\* return, and the user changes the language.
ReturnableIds ==
    {QuoteAt(i).id : i \in 1..(MaxQuotes + 1)} \cup {StaleId, Undefined, EmptyString}

Render ==
    /\ shown.status = "none"
    /\ shown' = useDailyQuote(quoteId, language)
    /\ heading' = fetchLocalized(dailyQuoteTitle, language)
    /\ UNCHANGED <<hasWindow, tzOffset, now, dailyQuotes, storage, quoteId,
                   language, call, prev, touched, touchedBetween, calls, changes>>
    /\ UNCHANGED droneVars
    /\ UNCHANGED narrVars

RenderNext == Render \/ SetLanguage

----------------------------------------------------------------------------
(* useTanpuraDrone: the audio objects *)

\* faulty variant: the repeated frequency left out
DRONE_FREQUENCIES_Triad == <<14683, 22000, 29366>>
\* line 5, in hundredths of a hertz
DRONE_FREQUENCIES == <<14683, 22000, 29366, 22000>>
\* line 74, in thousandths: index % 2 === 0 ? 0.1 : -0.08 (index 0-based)
Spread(index) == IF index % 2 = 0 THEN 100 ELSE 0 - 80
\* line 79, in thousandths of a hertz: 0.1 + Math.random() * 0.2
ModRate(k) == 100 + (k * 200) \div RateSteps
\* gains in ten-thousandths
PeakGain == 800
FloorGain == 1

Range(s) == {s[i] : i \in 1..Len(s)}

\* lines 72-90: the DroneNode built for DRONE_FREQUENCIES[index + 1] on ctx
NewVoice(ctx, index, k) ==
    [ctx |-> ctx,
     freq |-> DRONE_FREQUENCIES[index + 1],      \* osc.frequency.value = freq
     modRate |-> ModRate(k),                      \* detune.frequency.value
     modDepth |-> DRONE_FREQUENCIES[index + 1] * Spread(index),
     gain |-> PeakGain,                           \* linear ramp 0 -> 0.08
     modGain |-> DRONE_FREQUENCIES[index + 1] * Spread(index),
     oscStarted |-> TRUE,                         \* osc.start()
     modStarted |-> TRUE,                         \* detune.start()
     oscStopped |-> FALSE,
     modStopped |-> FALSE,
     connected |-> TRUE]                          \* gain.connect(destination)

\* lines 34-45: what stop() does to one recorded voice when statement f of the
\* try block (lines 35-38) throws, f = 0 for none: the statements before it
\* have taken effect, the catch ends the block, the disconnects follow
\* faulty variant: the disconnects inside the try block
StopVoiceDisconnectInTry(v, f) ==
    [v EXCEPT !.gain = IF f = 1 THEN @ ELSE FloorGain,
              !.modGain = IF f \in {1, 2} THEN @ ELSE FloorGain,
              !.oscStopped = IF f \in {1, 2, 3} THEN @ ELSE TRUE,
              !.modStopped = IF f \in {1, 2, 3, 4} THEN @ ELSE TRUE,
              !.connected = (f # 0)]
StopVoiceAt(v, f) ==
    [v EXCEPT !.gain = IF f = 1 THEN @ ELSE FloorGain,              \* line 35
              !.modGain = IF f \in {1, 2} THEN @ ELSE FloorGain,    \* line 36
              !.oscStopped = IF f \in {1, 2, 3} THEN @ ELSE TRUE,   \* line 37
              !.modStopped = IF f \in {1, 2, 3, 4} THEN @ ELSE TRUE, \* line 38
              !.connected = FALSE]                                  \* 42-45

\* lines 34-45: what stop() does to one recorded voice
StopVoice(v) == StopVoiceAt(v, 0)

\* a voice that sounds: started, not scheduled to stop, still connected
Sounds(v) == v.oscStarted /\ ~v.oscStopped /\ v.connected

----------------------------------------------------------------------------
(* stop, lines 30-52 *)

\* a voice nothing can reach or hear any more: both oscillators scheduled to
\* stop and all four nodes disconnected
Finished(v) == v.oscStopped /\ v.modStopped /\ ~v.connected

\* lines 33-46: every recorded voice is stopped; the finished voices, which
\* no reference of the hook reaches after line 47, leave the model
StoppedOscillators ==
    LET all == [id \in DOMAIN oscillators |->
                  IF id \in Range(nodesRef) THEN StopVoice(oscillators[id])
                  ELSE oscillators[id]]
        live == {id \in DOMAIN all : ~Finished(all[id])}
    IN  [id \in live |-> all[id]]

\* the same when statement f of the try block throws for the recorded voice
\* thrower
StoppedOscillatorsThrowing(thrower, f) ==
    LET all == [id \in DOMAIN oscillators |->
                  IF id = thrower THEN StopVoiceAt(oscillators[id], f)
                  ELSE IF id \in Range(nodesRef) THEN StopVoice(oscillators[id])
                  ELSE oscillators[id]]
        live == {id \in DOMAIN all : ~Finished(all[id])}
    IN  [id \in live |-> all[id]]

\* lines 48-50: contextRef.current.suspend().catch(...)
PendingAfterStop ==
    IF contextRef # 0
    THEN Append(pending, [op |-> "suspend", ctx |-> contextRef])
    ELSE pending

\* faulty variant: line 47 missing
stopWithKeepsNodes(after) ==
    /\ oscillators' = StoppedOscillators
    /\ nodesRef' = nodesRef
    /\ pending' = after
    /\ isActive' = FALSE
    /\ UNCHANGED <<contextRef, contexts, created>>
\* lines 33-51, the context operations left pending being those given
stopWith(after) ==
    /\ oscillators' = StoppedOscillators
    /\ nodesRef' = <<>>                      \* line 47
    /\ pending' = after                      \* lines 48-50
    /\ isActive' = FALSE                     \* line 51
    /\ UNCHANGED <<contextRef, contexts, created>>

stop == stopWith(PendingAfterStop)

----------------------------------------------------------------------------
(* start, lines 54-95 *)

\* lines 60-62: is a context constructed
\* faulty variant: a context is constructed on every start
NeedsContextAlways == TRUE
NeedsContext == contextRef = 0

\* lines 55-58: no window, or neither AudioContext nor webkitAudioContext
\* faulty variant: the capability is never looked at
NoAudioNever == FALSE
NoAudio == ~hasWindow \/ ~audioAvailable

\* lines 54-95; fresh is the state a newly constructed context reports and
\* ks the modulators' random draws
start(fresh, ks) ==
    IF NoAudio
    THEN UNCHANGED <<contextRef, contexts, pending, nodesRef, oscillators,
                     created, isActive>>                 \* lines 55, 58
    ELSE LET ctxs == IF NeedsContext THEN Append(contexts, fresh) ELSE contexts
             ctx == IF NeedsContext THEN Len(contexts) + 1 ELSE contextRef
             ids == [i \in 1..Len(DRONE_FREQUENCIES) |-> created + i]
         IN  /\ contexts' = ctxs
             /\ contextRef' = ctx
             /\ pending' = IF ctxs[ctx] = "suspended"        \* lines 65-67
                           THEN Append(pending, [op |-> "resume", ctx |-> ctx])
                           ELSE pending
             /\ oscillators' =
                  [id \in DOMAIN oscillators \cup Range(ids) |->
                      IF id \in DOMAIN oscillators THEN oscillators[id]
                      ELSE NewVoice(ctx, id - created - 1, ks[id - created])]
             /\ created' = created + Len(DRONE_FREQUENCIES)
             /\ nodesRef' = ids                              \* line 93
             /\ isActive' = TRUE                             \* line 94

----------------------------------------------------------------------------
(* The hook's events.  toggle and stop run as handlers of discrete UI       *)
(* events; React commits the render an event's setIsActive asks for before  *)
(* the next event is dispatched, and toggle is rebuilt whenever isActive     *)
(* changes (its dependency list, line 103), so the next toggle closes over  *)
(* the new isActive.                                                        *)

\* faulty variant: isActive missing from toggle's dependency list
CommitNothing == rendered' = rendered
Commit == rendered' = isActive'

CanRun == mounted /\ Len(pending) + 2 <= MaxPending

\* lines 97-103
\* faulty variant: the branches swapped
toggleInverted(fresh, ks) == IF rendered THEN start(fresh, ks) ELSE stop
toggle(fresh, ks) == IF rendered THEN stop ELSE start(fresh, ks)

Toggle ==
    /\ CanRun
    /\ rendered \/ created + Len(DRONE_FREQUENCIES) <= MaxStarts * Len(DRONE_FREQUENCIES)
    /\ \E fresh \in {"running", "suspended"},
          ks \in [1..Len(DRONE_FREQUENCIES) -> 0..(RateSteps - 1)] :
            toggle(fresh, ks)
    /\ Commit
    /\ op' = "toggle"
    /\ UNCHANGED <<hasWindow, audioAvailable, mounted>>
    /\ UNCHANGED quoteState
    /\ UNCHANGED narrVars

\* the stop the hook returns, called by its user
Stop ==
    /\ CanRun
    /\ stop
    /\ Commit
    /\ op' = "stop"
    /\ UNCHANGED <<hasWindow, audioAvailable, mounted>>
    /\ UNCHANGED quoteState
    /\ UNCHANGED narrVars

\* faulty variant: the cleanup closes the context without running stop()
TeardownWithoutStop ==
    /\ CanRun
    /\ pending' = IF contextRef # 0
                  THEN Append(pending, [op |-> "close", ctx |-> contextRef])
                  ELSE pending
    /\ UNCHANGED <<oscillators, nodesRef, isActive, contextRef, contexts, created>>
    /\ mounted' = FALSE
    /\ rendered' = rendered
    /\ op' = "teardown"
    /\ UNCHANGED <<hasWindow, audioAvailable>>
    /\ UNCHANGED quoteState
    /\ UNCHANGED narrVars
\* voices stop() left oscillating: no reference of the hook reaches them
Leaked == DOMAIN oscillators \ Range(nodesRef)

\* stop(), from toggle or from the hook's user, in a browser where one call of
\* the try block throws for one voice
StopThrowing ==
    /\ CanRun
    /\ \E thrower \in Range(nodesRef), f \in 1..4 :
          oscillators' = StoppedOscillatorsThrowing(thrower, f)
    /\ nodesRef' = <<>>                      \* line 47
    /\ pending' = PendingAfterStop           \* lines 48-50
    /\ isActive' = FALSE                     \* line 51
    /\ UNCHANGED <<contextRef, contexts, created>>
    /\ Commit
    /\ op' = "stopThrowing"
    /\ UNCHANGED <<hasWindow, audioAvailable, mounted>>
    /\ UNCHANGED quoteState
    /\ UNCHANGED narrVars

\* lines 105-112: the effect's cleanup, run when the component unmounts
Teardown ==
    /\ CanRun
    /\ stopWith(IF contextRef # 0                          \* lines 107-110
                THEN Append(PendingAfterStop, [op |-> "close", ctx |-> contextRef])
                ELSE PendingAfterStop)
    /\ mounted' = FALSE
    /\ rendered' = rendered
    /\ op' = "teardown"
    /\ UNCHANGED <<hasWindow, audioAvailable>>
    /\ UNCHANGED quoteState
    /\ UNCHANGED narrVars

\* The audio system settles the oldest suspend(), resume() or close(); on a
\* closed context suspend() and resume() reject, which the catch swallows.
Settle ==
    /\ pending # <<>>
    /\ LET p == Head(pending) IN
         contexts' = [contexts EXCEPT ![p.ctx] =
                        IF @ = "closed" THEN "closed"
                        ELSE IF p.op = "suspend" THEN "suspended"
                        ELSE IF p.op = "resume" THEN "running"
                        ELSE "closed"]
    /\ pending' = Tail(pending)
    /\ op' = "settle"
    /\ UNCHANGED <<hasWindow, audioAvailable, contextRef, nodesRef, oscillators,
                   created, isActive, rendered, mounted>>
    /\ UNCHANGED quoteState
    /\ UNCHANGED narrVars

DroneInit ==
    /\ hasWindow \in BOOLEAN
    /\ audioAvailable \in BOOLEAN
    /\ audioAvailable => hasWindow
    /\ contextRef = 0
    /\ contexts = <<>>
    /\ pending = <<>>
    /\ nodesRef = <<>>
    /\ oscillators = [id \in {} |-> 0]
    /\ created = 0
    /\ isActive = FALSE
    /\ rendered = FALSE
    /\ mounted = TRUE
    /\ op = "none"

DroneNext == Toggle \/ Stop \/ Teardown \/ Settle

\* toggle() as long as no stop() has thrown: a run in which one has is
\* followed through the stops, the cleanup and the context operations that
\* come after it, not through further sessions
ToggleBeforeThrow == Leaked = {} /\ Toggle

\* the hook where audio nodes may throw inside stop()
DroneFaultNext == ToggleBeforeThrow \/ Stop \/ Teardown \/ Settle \/ StopThrowing

----------------------------------------------------------------------------
(* GitaExperience: voices and narration.  A locale tag is the sequence of   *)
(* its characters, so that toLowerCase and startsWith work on it as they do *)
(* on the string.                                                           *)

UpperCase == <<"A", "B", "C", "D", "E", "F", "G", "H", "I", "J", "K", "L", "M",
               "N", "O", "P", "Q", "R", "S", "T", "U", "V", "W", "X", "Y", "Z">>
LowerCase == <<"a", "b", "c", "d", "e", "f", "g", "h", "i", "j", "k", "l", "m",
               "n", "o", "p", "q", "r", "s", "t", "u", "v", "w", "x", "y", "z">>

\* String.prototype.toLowerCase
toLowerCase(s) ==
    [i \in 1..Len(s) |->
        IF \E j \in 1..Len(UpperCase) : UpperCase[j] = s[i]
        THEN LowerCase[CHOOSE j \in 1..Len(UpperCase) : UpperCase[j] = s[i]]
        ELSE s[i]]

\* String.prototype.startsWith
startsWith(s, prefix) ==
    /\ Len(prefix) <= Len(s)
    /\ \A i \in 1..Len(prefix) : s[i] = prefix[i]

\* language subtag, "-", region subtag
Tag(a, b) == a \o <<"-">> \o b
en == <<"e", "n">>
ar == <<"a", "r">>
India == <<"I", "N">>

\* lines 21-30
voiceHints ==
    [l \in Languages |->
        CASE l = "en" -> <<Tag(en, India), Tag(en, <<"G", "B">>), Tag(en, <<"U", "S">>)>>
          [] l = "hi" -> <<Tag(<<"h", "i">>, India), Tag(<<"m", "r">>, India)>>
          [] l = "ml" -> <<Tag(<<"m", "l">>, India), Tag(en, India)>>
          [] l = "ta" -> <<Tag(<<"t", "a">>, India), Tag(en, India)>>
          [] l = "kn" -> <<Tag(<<"k", "n">>, India), Tag(en, India)>>
          [] l = "te" -> <<Tag(<<"t", "e">>, India), Tag(en, India)>>
          [] l = "bn" -> <<Tag(<<"b", "n">>, India), Tag(en, India)>>
          [] l = "ar" -> <<Tag(ar, <<"S", "A">>), Tag(ar, <<"E", "G">>), ar>>]

\* a voice whose lang is undefined
NoLang == <<"<undefined>">>

\* line 41: item.lang?.toLowerCase().startsWith(hint.toLowerCase())
\* faulty variant: the cases compared as they are
MatchesCaseSensitive(lang, hint) == lang # NoLang /\ startsWith(lang, hint)
Matches(lang, hint) ==
    lang # NoLang /\ startsWith(toLowerCase(lang), toLowerCase(hint))

\* Array.prototype.find over the voices, by index; 0 for undefined
FindVoice(vs, hint) ==
    IF \E i \in 1..Len(vs) : Matches(vs[i], hint)
    THEN CHOOSE i \in 1..Len(vs) :
            /\ Matches(vs[i], hint)
            /\ \A j \in 1..(i - 1) : ~Matches(vs[j], hint)
    ELSE 0

\* lines 37-47: the index of the voice chosen, 0 for undefined
RECURSIVE pickVoiceFrom(_, _, _)
pickVoiceFrom(vs, hints, n) ==
    IF n > Len(hints) THEN FindVoice(vs, en)                  \* line 46
    ELSE IF FindVoice(vs, hints[n]) # 0 THEN FindVoice(vs, hints[n])
    ELSE pickVoiceFrom(vs, hints, n + 1)
pickVoice(vs, lang) == pickVoiceFrom(vs, voiceHints[lang], 1)

\* the selected section (content module): three localized fields
section ==
    [brief |-> [l \in {"en", "hi"} |-> "brief-" \o l],
     narration |-> [l \in {"en"} |-> "narration-" \o l],
     realLife |-> [l \in {"en", "ar"} |-> "realLife-" \o l]]

\* lines 117-133: the utterance handleNarration builds; the rate in hundredths
NewUtterance(id) ==
    LET voice == pickVoice(voices, language) IN
    [id |-> id,
     text |-> <<fetchLocalized(section.brief, language),
                fetchLocalized(section.narration, language),
                fetchLocalized(section.realLife, language)>>,
     voice |-> voice,
     lang |-> IF voice # 0 THEN voices[voice]
              ELSE IF language = "ar" THEN Tag(ar, <<"S", "A">>) ELSE Tag(en, India),
     rate |-> IF language = "ar" THEN 90 ELSE IF language = "en" THEN 98 ELSE 95]

\* SpeechSynthesis.cancel(): every utterance leaves the queue
synthesisCancel(q) == <<>>

\* lines 116 and 138: the queue after cancel() and speak(utterance)
\* faulty variant: line 116 missing
QueueAfterNarrationNoCancel(q, u) == Append(q, u)
QueueAfterNarration(q, u) == Append(synthesisCancel(q), u)

\* the ids of the utterances in a queue
Ids(q) == {q[i].id : i \in 1..Len(q)}

\* the variables of the quote other than the language
quoteOther == <<hasWindow, tzOffset, now, dailyQuotes, storage, quoteId, shown,
                heading, call, prev, touched, touchedBetween, calls, changes>>

\* The narration button exists when speech is supported and a section is
\* shown (lines 271, 337); it calls stopNarration while isSpeaking and
\* handleNarration otherwise (line 341).
ButtonShown == narrMounted /\ speechSupported /\ hasSection

\* lines 111-139.  The engine reports each utterance cancel() removed with an
\* end or error event, delivered later.
HandleNarration ==
    /\ ButtonShown /\ ~isSpeaking
    /\ issued < MaxUtterances
    /\ LET u == NewUtterance(issued + 1) IN
        /\ queue' = QueueAfterNarration(queue, u)
        /\ events' = events \cup (Ids(queue) \ Ids(queue'))
        /\ lastUtterance' = u
    /\ issued' = issued + 1
    /\ isSpeaking' = TRUE                                        \* line 137
    /\ narrOp' = IF queue # <<>> THEN "narrateOver" ELSE "narrate"
    /\ UNCHANGED <<speechSupported, hasSection, voices, narrMounted>>
    /\ UNCHANGED <<quoteOther, language>>
    /\ UNCHANGED droneVars

\* lines 141-146
stopNarration ==
    /\ queue' = synthesisCancel(queue)
    /\ events' = events \cup Ids(queue)
    /\ isSpeaking' = FALSE
    /\ UNCHANGED <<speechSupported, hasSection, voices, issued, lastUtterance>>

StopNarration ==
    /\ ButtonShown /\ isSpeaking
    /\ stopNarration
    /\ narrOp' = "stop"
    /\ UNCHANGED narrMounted
    /\ UNCHANGED <<quoteOther, language>>
    /\ UNCHANGED droneVars

\* lines 148-152: the cleanup at unmount
Unmount ==
    /\ narrMounted
    /\ IF speechSupported
       THEN stopNarration
       ELSE UNCHANGED <<speechSupported, hasSection, voices, queue, events,
                        isSpeaking, issued, lastUtterance>>         \* line 143
    /\ narrMounted' = FALSE
    /\ narrOp' = "unmount"
    /\ UNCHANGED <<quoteOther, language>>
    /\ UNCHANGED droneVars

\* The engine finishes the utterance it speaks, or fails to speak it: the
\* utterance leaves the queue and its end or error event is due.
EngineEnds ==
    /\ queue # <<>>
    /\ queue' = Tail(queue)
    /\ events' = events \cup {Head(queue).id}
    /\ narrOp' = "ends"
    /\ UNCHANGED <<speechSupported, hasSection, voices, isSpeaking, issued,
                   lastUtterance, narrMounted>>
    /\ UNCHANGED <<quoteOther, language>>
    /\ UNCHANGED droneVars

\* lines 135-136: the onend or onerror callback of an utterance runs
Deliver ==
    /\ \E id \in events : events' = events \ {id}
    /\ isSpeaking' = FALSE
    /\ narrOp' = "callback"
    /\ UNCHANGED <<speechSupported, hasSection, voices, queue, issued,
                   lastUtterance, narrMounted>>
    /\ UNCHANGED <<quoteOther, language>>
    /\ UNCHANGED droneVars

\* the lists getVoices() reports in the narration runs
hiIN == Tag(<<"h", "i">>, India)
enUS == Tag(en, <<"U", "S">>)
arEG == Tag(ar, <<"E", "G">>)
BrowserVoices == {<<hiIN, enUS>>, <<arEG>>}

\* lines 75-80: syncVoices, at mount and on voiceschanged
SyncVoices ==
    /\ narrMounted /\ speechSupported
    /\ \E available \in BrowserVoices :
        /\ available # voices
        /\ voices' = available
    /\ narrOp' = "voices"
    /\ UNCHANGED <<speechSupported, hasSection, queue, events, isSpeaking, issued,
                   lastUtterance, narrMounted>>
    /\ UNCHANGED <<quoteOther, language>>
    /\ UNCHANGED droneVars

\* line 174: the language select
ChooseLanguage ==
    /\ narrMounted
    /\ \E l \in Languages :
        /\ l # language
        /\ language' = l
    /\ narrOp' = "language"
    /\ UNCHANGED <<speechSupported, hasSection, voices, queue, events, isSpeaking,
                   issued, lastUtterance, narrMounted>>
    /\ UNCHANGED quoteOther
    /\ UNCHANGED droneVars

NarrationNext ==
    HandleNarration \/ StopNarration \/ Unmount \/ EngineEnds \/ Deliver
      \/ SyncVoices \/ ChooseLanguage

\* the voices for pickVoice: every list of at most MaxVoices of these langs
VoiceLangs ==
    {enUS, <<"E", "N", "-", "g", "b">>, hiIN, Tag(<<"m", "r">>, India), arEG, ar,
     Tag(<<"f", "r">>, <<"F", "R">>), NoLang, Tag(en, India)}
VoiceLists == UNION {[1..n -> VoiceLangs] : n \in 0..MaxVoices}

VoiceNext == HandleNarration \/ StopNarration

----------------------------------------------------------------------------
(* The specifications *)

DroneIdle ==
    /\ audioAvailable = FALSE
    /\ contextRef = 0
    /\ contexts = <<>>
    /\ pending = <<>>
    /\ nodesRef = <<>>
    /\ oscillators = [id \in {} |-> 0]
    /\ created = 0
    /\ isActive = FALSE
    /\ rendered = FALSE
    /\ mounted = TRUE
    /\ op = "none"

\* the narration with nothing said
NoUtterance == [id |-> 0, text |-> <<>>, voice |-> 0, lang |-> <<>>, rate |-> 0]
NarrationIdle ==
    /\ speechSupported = FALSE
    /\ hasSection = FALSE
    /\ voices = <<>>
    /\ queue = <<>>
    /\ events = {}
    /\ isSpeaking = FALSE
    /\ issued = 0
    /\ lastUtterance = NoUtterance
    /\ narrMounted = TRUE
    /\ narrOp = "none"

\* the quote component before its first render
QuoteIdle ==
    /\ tzOffset = 0 /\ now = StartInstant
    /\ dailyQuotes = <<>> /\ storage = Absent /\ quoteId = Undefined
    /\ language = "en" /\ shown = NotShown /\ heading = EmptyString
    /\ call = NoCall /\ prev = NoPrev /\ touched = FALSE
    /\ touchedBetween = FALSE /\ calls = 0 /\ changes = 0

QuoteSpecInit == QuoteInit /\ DroneIdle /\ NarrationIdle
QuoteSpec == QuoteSpecInit /\ [][QuoteNext]_vars

RenderSpecInit ==
    /\ hasWindow = TRUE /\ tzOffset = 0 /\ now = StartInstant
    /\ dailyQuotes \in QuoteSets
    /\ quoteId \in ReturnableIds
    /\ language = "en"
    /\ storage = Absent /\ shown = NotShown /\ call = NoCall
    /\ heading = EmptyString
    /\ prev = NoPrev /\ touched = FALSE /\ touchedBetween = FALSE
    /\ calls = 0 /\ changes = 0
    /\ DroneIdle /\ NarrationIdle
RenderSpec == RenderSpecInit /\ [][RenderNext]_vars

DroneSpecInit == DroneInit /\ QuoteIdle /\ NarrationIdle
DroneSpec == DroneSpecInit /\ [][DroneNext]_vars

DroneFaultSpec == DroneSpecInit /\ [][DroneFaultNext]_vars

\* the quote variables other than the language, before the first render
QuoteOtherIdle ==
    /\ tzOffset = 0 /\ now = StartInstant
    /\ dailyQuotes = <<>> /\ storage = Absent /\ quoteId = Undefined
    /\ shown = NotShown /\ heading = EmptyString
    /\ call = NoCall /\ prev = NoPrev /\ touched = FALSE
    /\ touchedBetween = FALSE /\ calls = 0 /\ changes = 0

\* GitaExperience after construction (lines 50-54, 69-70)
NarrationInit ==
    /\ hasWindow \in BOOLEAN
    /\ speechSupported \in BOOLEAN
    /\ speechSupported => hasWindow
    /\ hasSection \in BOOLEAN
    /\ language = "en"
    /\ voices = <<>>
    /\ queue = <<>>
    /\ events = {}
    /\ isSpeaking = FALSE
    /\ issued = 0
    /\ lastUtterance = NoUtterance
    /\ narrMounted = TRUE
    /\ narrOp = "none"
NarrationSpecInit == NarrationInit /\ QuoteOtherIdle /\ DroneIdle
NarrationSpec == NarrationSpecInit /\ [][NarrationNext]_vars

\* pickVoice over every list of voices and every language
VoiceInit ==
    /\ hasWindow = TRUE
    /\ speechSupported = TRUE
    /\ hasSection = TRUE
    /\ language \in Languages
    /\ voices \in VoiceLists
    /\ queue = <<>>
    /\ events = {}
    /\ isSpeaking = FALSE
    /\ issued = 0
    /\ lastUtterance = NoUtterance
    /\ narrMounted = TRUE
    /\ narrOp = "none"
VoiceSpecInit == VoiceInit /\ QuoteOtherIdle /\ DroneIdle
VoiceSpec == VoiceSpecInit /\ [][VoiceNext]_vars

----------------------------------------------------------------------------
(* Claims about the Daily Quote Selector *)

\* the local calendar date of local day n, formatted YYYY-MM-DD
CalendarDate(n) == LET f == FieldsOfDay(n) IN <<f[1], f[2] + 1, f[3]>>

C2_NeverThrows == call.kind # "threw"

\* C3: with no persisted record, or one whose date differs from today, and a
\* non-empty quote set, resolveQuoteId returns the id of the quote the draw
\* selected and the persisted record is then exactly {date: today, quoteId:
\* that id}, today being the local calendar date.  (Stated for the calls
\* during which storage works.)
C3_SelectsAndPersists ==
    (/\ call.kind # "none"
     /\ hasWindow
     /\ call.mode = "ok"
     /\ Len(dailyQuotes) > 0
     /\ \/ call.before.tag = "absent"
        \/ /\ call.before.tag = "object"
           /\ call.before.date # NoDate
           /\ call.before.date # CalendarDate(call.day))
    => /\ call.kind = "returned"
       /\ call.draw \in 1..Len(dailyQuotes)
       /\ call.id = dailyQuotes[call.draw].id
       /\ call.after = JSONstringify(CalendarDate(call.day), call.id)

\* C4: a malformed persisted value (not JSON, or JSON that is not a record
\* with both a date and a quoteId) is treated as an absent record: a new
\* selection is made and {date: today, quoteId: selected.id} is persisted.
\* (Stated for the calls during which storage works, and with the date the
\* selector computed.)
Malformed(raw) ==
    \/ raw.tag \in {"empty", "garbage", "null", "number"}
    \/ raw.tag = "object" /\ (raw.date = NoDate \/ raw.quoteId = Undefined)
C4_MalformedIsAbsent ==
    (/\ call.kind # "none"
     /\ hasWindow
     /\ call.mode = "ok"
     /\ Len(dailyQuotes) > 0
     /\ Malformed(call.before))
    => /\ call.kind = "returned"
       /\ call.draw \in 1..Len(dailyQuotes)
       /\ call.id = dailyQuotes[call.draw].id
       /\ call.after = JSONstringify(call.date, call.id)

\* C5: the date string resolveQuoteId compares and persists is the device's
\* local calendar date, for every time of day and every timezone offset.
C5_DateIsLocalDate ==
    (call.kind # "none" /\ hasWindow) => call.date = CalendarDate(call.day)

\* C10: the quote rendered is the quote of the set carrying the id; for an id
\* no quote carries, the first quote of the set; for an empty set, empty text
\* and empty source.
C10_ResolveById ==
    shown.status = "rendered" =>
        LET carrying == {q \in Range(dailyQuotes) : q.id = quoteId}
            expected == IF carrying # {} THEN carrying
                        ELSE IF dailyQuotes # <<>> THEN {dailyQuotes[1]}
                        ELSE {}
        IN  IF expected = {}
            THEN shown.text = EmptyString /\ shown.source = EmptyString
            ELSE \E q \in expected :
                    /\ shown.text \in {q.text[l] : l \in DOMAIN q.text}
                    /\ shown.source \in {q.source[l] : l \in DOMAIN q.source}
\* a quote other than the first is resolved by its id
C10_Witness ==
    /\ shown.status = "rendered"
    /\ Len(dailyQuotes) >= 2
    /\ quoteId = dailyQuotes[2].id
    /\ shown.text = dailyQuotes[2].text["en"]

----------------------------------------------------------------------------
(* Claims about the Ambient Drone Synthesizer *)

\* C6: with audio available, a toggle from Idle ends Sounding with exactly 4
\* recorded voices, one per base frequency, each started and connected; a
\* toggle from Sounding ends Idle with none; for every toggle of a run.
C6_ToggleAlternates ==
    [][(op' = "toggle" /\ hasWindow /\ audioAvailable) =>
        IF ~isActive
        THEN /\ isActive'
             /\ Len(nodesRef') = 4
             /\ \A i \in 1..4 :
                    /\ nodesRef'[i] \in DOMAIN oscillators'
                    /\ Sounds(oscillators'[nodesRef'[i]])
                    /\ oscillators'[nodesRef'[i]].freq = DRONE_FREQUENCIES[i]
             /\ \A i, j \in 1..4 : i # j => nodesRef'[i] # nodesRef'[j]
        ELSE /\ ~isActive'
             /\ nodesRef' = <<>>]_vars
\* the second activation of a run
C6_Witness ==
    /\ op = "toggle" /\ isActive /\ created = 8 /\ Len(nodesRef) = 4

\* C7: every oscillator started and not yet scheduled to stop is recorded in
\* the active-voice list, and never more than 4 voices sound.
C7_OneSession ==
    /\ \A id \in DOMAIN oscillators :
          ((oscillators[id].oscStarted /\ ~oscillators[id].oscStopped)
            \/ (oscillators[id].modStarted /\ ~oscillators[id].modStopped))
          => id \in Range(nodesRef)
    /\ Cardinality({id \in DOMAIN oscillators : Sounds(oscillators[id])}) <= 4
\* a second session sounds after the first one was stopped
C7_Witness ==
    /\ created = 8 /\ isActive
    /\ Cardinality({id \in DOMAIN oscillators : Sounds(oscillators[id])}) = 4

\* C8: stop() ends with isActive false and an empty active-voice list, from
\* Sounding and from Idle, with or without a context; a stop() directly after
\* a stop() changes neither of them, nor any voice or context.
C8_StopIdempotent ==
    [][op' = "stop" =>
        /\ ~isActive'
        /\ nodesRef' = <<>>
        /\ \A id \in DOMAIN oscillators' : ~Sounds(oscillators'[id])
        /\ op = "stop" =>
              /\ isActive' = isActive
              /\ nodesRef' = nodesRef
              /\ oscillators' = oscillators
              /\ contextRef' = contextRef
              /\ contexts' = contexts]_vars
\* stop() has run with voices created and a context present
C8_Witness ==
    /\ op = "stop" /\ created > 0 /\ contextRef # 0 /\ ~isActive
    /\ Len(pending) >= 2
    /\ pending[Len(pending)].op = "suspend"
    /\ pending[Len(pending) - 1].op = "suspend"

\* C9: no context exists before the first activation, at most one is ever
\* created, and every voice is built on it.
C9_LazySingleContext ==
    /\ Len(contexts) <= 1
    /\ contexts # <<>> => (contextRef = 1 /\ created > 0)
    /\ contextRef # 0 => contexts # <<>>
    /\ \A id \in DOMAIN oscillators : oscillators[id].ctx = 1
\* a second activation reused the context
C9_Witness ==
    /\ created = 8 /\ Len(contexts) = 1 /\ isActive

\* C11: a localized field is rendered in the requested language when its
\* mapping has that language, and in English when it has not: for the text and
\* the source of the daily quote and for the title above it.
C11_LanguageOrEnglish ==
    (shown.status = "rendered" /\ dailyQuotes # <<>>) =>
        /\ \E q \in Range(dailyQuotes) :
            /\ language \in DOMAIN q.text => shown.text = q.text[language]
            /\ language \notin DOMAIN q.text => shown.text = q.text["en"]
            /\ language \in DOMAIN q.source => shown.source = q.source[language]
            /\ language \notin DOMAIN q.source => shown.source = q.source["en"]
        /\ language \in DOMAIN dailyQuoteTitle =>
              heading = dailyQuoteTitle[language]
        /\ language \notin DOMAIN dailyQuoteTitle =>
              heading = dailyQuoteTitle["en"]
\* Hindi is requested: the text and the title have it, the source falls back
C11_Witness ==
    /\ shown.status = "rendered" /\ language = "hi"
    /\ shown.text = "text1-hi" /\ shown.source = "source1-en"
    /\ heading = "title-hi"

\* C12: where no audio capability exists (no window, or no AudioContext
\* constructor) the hook stays Idle whatever is toggled: isActive false, no
\* voice recorded or created, no context constructed, nothing pending.
C12_NoAudioStaysIdle ==
    (~hasWindow \/ ~audioAvailable) =>
        /\ ~isActive /\ ~rendered
        /\ nodesRef = <<>>
        /\ created = 0 /\ DOMAIN oscillators = {}
        /\ contextRef = 0 /\ contexts = <<>>
        /\ pending = <<>>
\* toggle() has run in a browser without an AudioContext constructor
C12_Witness ==
    /\ hasWindow /\ ~audioAvailable /\ op = "toggle" /\ mounted

\* C13: whenever the hook is Sounding and every resume() and suspend() issued
\* so far has completed, the context is running, not suspended.
C13_SoundingMeansRunning ==
    (isActive /\ contextRef # 0 /\ pending = <<>>) =>
        contexts[contextRef] = "running"

\* the close() calls made so far: those still pending and those completed
Closes(p, ctxs) ==
    Cardinality({i \in 1..Len(p) : p[i].op = "close"})
      + Cardinality({c \in 1..Len(ctxs) : ctxs[c] = "closed"})

\* C14: the context is closed only by the unmount cleanup and only after the
\* stop procedure has run (voices cleared, Idle); stop() and toggle() never
\* close it; no voice is ever created once close() has been called.
C14_CloseOnlyAtTeardown ==
    [][/\ Closes(pending', contexts') # Closes(pending, contexts) =>
            /\ op' = "teardown"
            /\ nodesRef' = <<>> /\ ~isActive'
            /\ \A id \in DOMAIN oscillators' : ~Sounds(oscillators'[id])
            /\ Len(pending') >= 2
            /\ pending'[Len(pending') - 1].op = "suspend"
            /\ pending'[Len(pending')].op = "close"
       /\ op' \in {"toggle", "stop"} =>
            Closes(pending', contexts') = Closes(pending, contexts)
       /\ created' > created => Closes(pending', contexts') = 0
       /\ Closes(pending', contexts') > 0 => (~mounted' /\ nodesRef' = <<>>)]_vars
\* the cleanup ran while Sounding and its close() has completed
C14_Witness ==
    /\ op = "settle" /\ ~mounted /\ created > 0 /\ rendered
    /\ contextRef # 0 /\ contexts[contextRef] = "closed"

\* C15: in stop() an exception thrown while ramping or stopping one voice is
\* swallowed: that voice and every other recorded voice are still
\* disconnected, the other voices are stopped completely, the list is
\* cleared, suspend() is requested and the state is Idle.
C15_ThrowingVoiceStillDisconnected ==
    [][op' = "stopThrowing" =>
        /\ \A id \in Range(nodesRef) :
              id \in DOMAIN oscillators' => ~oscillators'[id].connected
        /\ Cardinality(Range(nodesRef) \cap DOMAIN oscillators') = 1
        /\ \A id \in DOMAIN oscillators' : ~Sounds(oscillators'[id])
        /\ nodesRef' = <<>>
        /\ pending' = Append(pending, [op |-> "suspend", ctx |-> contextRef])
        /\ ~isActive' /\ ~rendered'
        /\ contextRef' = contextRef /\ contexts' = contexts]_vars
\* the first ramp of a voice threw: the voice is neither ramped nor stopped,
\* yet disconnected
C15_Witness ==
    /\ op = "stopThrowing" /\ nodesRef = <<>> /\ ~isActive
    /\ \E id \in DOMAIN oscillators :
          /\ oscillators[id].gain = PeakGain
          /\ ~oscillators[id].oscStopped
          /\ ~oscillators[id].connected

\* C19: in every reachable state the list of active voices holds either no
\* voice or four, and isActive is true exactly when it holds four.
C19_NoneOrFourVoices ==
    /\ Len(nodesRef) \in {0, 4}
    /\ isActive <=> Len(nodesRef) = 4
\* Sounding for the second time, with four voices recorded
C19_Witness ==
    /\ isActive /\ Len(nodesRef) = 4 /\ created = 8 /\ op = "toggle"

\* C18: when a persisted record exists whose date equals today, the local
\* calendar date, resolveQuoteId returns that record's quoteId and leaves the
\* persisted value unchanged, and no random draw is made.  (Stated for the
\* calls during which storage works.)
C18_ReuseLeavesStorage ==
    (/\ call.kind # "none"
     /\ hasWindow
     /\ call.mode = "ok"
     /\ call.before.tag = "object"
     /\ call.before.date = CalendarDate(call.day))
    => /\ call.kind = "returned"
       /\ call.id = call.before.quoteId
       /\ call.after = call.before
       /\ call.draw = 0

----------------------------------------------------------------------------
(* Claims about the narration *)

\* C16: handleNarration removes the utterance being spoken before it submits
\* the new one, so that after any sequence of narration starts and stops the
\* engine holds at most one utterance of the component, and that one is the
\* utterance requested last.
C16_OneUtteranceTheLatest ==
    /\ Len(queue) <= 1
    /\ queue # <<>> => (queue[1] = lastUtterance /\ queue[1].id = issued)
    /\ narrOp \in {"narrate", "narrateOver"} => queue = <<lastUtterance>>
\* handleNarration ran while the previous utterance was still in the engine:
\* that utterance is gone and the new one is the only one
C16_Witness ==
    /\ narrOp = "narrateOver" /\ issued >= 2
    /\ (issued - 1) \in events
    /\ queue = <<lastUtterance>> /\ lastUtterance.id = issued

\* C17: isSpeaking is true whenever an utterance of the component is pending
\* or speaking, and false once none is and no callback is outstanding.
C17_SpeakingTracksEngine ==
    narrMounted =>
        /\ queue # <<>> => isSpeaking
        /\ (queue = <<>> /\ events = {}) => ~isSpeaking

\* does a voice's lang start with the hint, letter case aside
C20_StartsWith(lang, hint) ==
    /\ lang # NoLang
    /\ Len(lang) >= Len(hint)
    /\ toLowerCase(SubSeq(lang, 1, Len(hint))) = toLowerCase(hint)

\* the voices whose lang starts with the hint
C20_Matching(hint) == {i \in 1..Len(voices) : C20_StartsWith(voices[i], hint)}

\* C20: the voice of the utterance is one whose lang starts, letter case
\* aside, with the earliest hint of the language that any available voice
\* matches; if no hint is matched, one whose lang starts with "en"; if there
\* is none either, no voice.  A voice of a later hint is never chosen while a
\* voice of an earlier hint is available.
C20_EarliestHintWins ==
    lastUtterance.id # 0 =>
        LET hints == voiceHints[language]
            matched == {n \in 1..Len(hints) : C20_Matching(hints[n]) # {}}
            voice == lastUtterance.voice
        IN  IF matched # {}
            THEN LET first == CHOOSE n \in matched : \A m \in matched : n <= m
                 IN  /\ voice \in C20_Matching(hints[first])
                     /\ \A n \in 1..(first - 1) : voice \notin C20_Matching(hints[n])
            ELSE IF C20_Matching(en) # {}
            THEN voice \in C20_Matching(en)
            ELSE voice = 0
\* Arabic with an "ar" voice listed before an "ar-EG" voice: the second voice,
\* of the earlier hint, is chosen
C20_Witness ==
    /\ language = "ar" /\ voices = <<ar, arEG>>
    /\ lastUtterance.id # 0 /\ lastUtterance.voice = 2

====
